---- MODULE Spec2Model ----
(***************************************************************************)
(* Batch Engine: the controller (BatchJob), the aggregator chain           *)
(* (BatchStep), the checkpoint protocol (StepExecutionResult) and the      *)
(* persistance context, as a state machine.                                *)
(*                                                                         *)
(* Node runs the engine on one thread.  An action of this module is the    *)
(* code that runs between two awaits: it starts where a promise settles    *)
(* (getNext, the client step, a stream event, or the tick that every       *)
(* `await` of an async function costs) and runs to the next await.         *)
(* The writes a checkpoint issues reach the databases one at a time, in    *)
(* the order of issue, before the engine takes its next step.              *)
(***************************************************************************)
EXTENDS Integers, Sequences, FiniteSets, TLC

\* Bounds of the model.
MaxSteps == 2
MaxAggregation == 2
MaxMultiplier == 2
MaxRecords == 2

\* Step instances a client can hand to Builder.addStep.
MaxInstances == 3

\* Records that failing checkpoint writes may hit in one execution.
MaxWriteFailures == 1

VARIABLES
  aggregationQuantity,     \* BatchStep.aggregationQuantity of every step of the chain
  concurrencyMultiplier,   \* BatchJob.concurrencyMultiplier
  sourceSize,              \* number of records the client source holds
  execType,                \* BatchStatus.execType
  status,                  \* BatchStatus.status
  currentConcurrency,      \* BatchJob.currentConcurrency
  loadedRecords,           \* BatchStatus.loadedRecords
  failedRecords,           \* BatchStatus.failedRecords
  cursor,                  \* records the source has handed out
  pendingGetNext,          \* doNextObj workers suspended in `await this.getNext()`
  dependentRecordsAcc,     \* BatchStep.dependentRecordsAcc, per step
  previousStepPayloadAcc,  \* BatchStep.previousStepPayloadAcc, per step
  tasks,                   \* suspended async calls that hold a step result
  persistanceContext,      \* recordsDBCache, recordsDB, stepsResultsDB, open
  recoveredPersistanceContext, \* the databases of the execution that retry re-runs
  streamPos,               \* retry: rows each records stream has emitted, per step
  streamEnded,             \* retry: whether each records stream has emitted 'end'
  alreadyReMake,           \* retry: step result ids already re-injected
  injections,              \* history: calls of injectRecoveredState per step result id
  finalized,               \* history: records of a successful last-step result
  stepFailures,            \* history: client step invocations that threw
  stepCalls,               \* history: per step, the payload count of each invocation
  endCount,                \* history: calls of endBatchExecution
  stepsChain,              \* Builder: BatchJob.stepsChain, the head of the chain
  successor,               \* Builder: BatchStep.successor of every step instance
  setNumber,               \* Builder: BatchStep.stepNumber of every step instance
  addStepThrew             \* Builder: whether the last addStep threw

vars == <<aggregationQuantity, concurrencyMultiplier, sourceSize, execType, status,
          currentConcurrency, loadedRecords, failedRecords, cursor, pendingGetNext,
          dependentRecordsAcc, previousStepPayloadAcc, tasks, persistanceContext,
          recoveredPersistanceContext, streamPos, streamEnded, alreadyReMake,
          injections, finalized, stepFailures, stepCalls, endCount,
          stepsChain, successor, setNumber, addStepThrew>>

builder == <<stepsChain, successor, setNumber, addStepThrew>>

retryVars == <<recoveredPersistanceContext, streamPos, streamEnded, alreadyReMake,
               injections>>

config == <<aggregationQuantity, concurrencyMultiplier, sourceSize>>

----------------------------------------------------------------------------
\* Helpers on sequences.

Range(s) == {s[k] : k \in 1..Len(s)}

RECURSIVE SumLen(_, _)
SumLen(f, k) == IF k = 0 THEN 0 ELSE Len(f[k]) + SumLen(f, k - 1)

RECURSIVE Product(_, _)
Product(s, k) == IF k = 0 THEN 1 ELSE s[k] * Product(s, k - 1)

----------------------------------------------------------------------------
\* The chain.

Chains == UNION {[1..k -> 1..MaxAggregation] : k \in 1..MaxSteps}

getStepsCount == Len(aggregationQuantity)

getTotalStepsNeeded == Product(aggregationQuantity, getStepsCount)

maxConcurrentRecords == getTotalStepsNeeded * concurrencyMultiplier

recordsInTheChainOf(dra) == SumLen(dra, getStepsCount)

recordsInTheChain == recordsInTheChainOf(dependentRecordsAcc)

isLastOne(stepNumber) == stepNumber = getStepsCount

----------------------------------------------------------------------------
\* Step execution results.  A payload is the sequence of the record ids it
\* was computed from; <<>> stands for null.

NoId == [stepNumber |-> 0, status |-> "NONE", dependentRecords |-> <<>>, serial |-> 0]

StepExecutionResult(stepNumber, stepState, dependentRecords, accPayload, outputPayload, last) ==
  [id |-> NoId, stepNumber |-> stepNumber, status |-> stepState,
   dependentRecords |-> dependentRecords, accPayload |-> accPayload,
   outputPayload |-> outputPayload, isLastOne |-> last]

getNiceObjectToLogRecord(ser) ==
  [step |-> ser.stepNumber, id |-> ser.id, status |-> ser.status]

getNiceObjectToLogStepResult(ser) ==
  [stepNumber |-> ser.stepNumber, status |-> ser.status,
   dependentRecords |-> ser.dependentRecords, accPayload |-> ser.accPayload]

\* uuidv1() returns an id no earlier call returned.  The model names a
\* publication by its step, status and dependent records, which no two
\* publications of one execution share unless the dependent records are
\* empty; the serial number tells those apart.
uuidv1(pc, ser) ==
  [stepNumber |-> ser.stepNumber, status |-> ser.status,
   dependentRecords |-> ser.dependentRecords,
   serial |-> Cardinality({k \in DOMAIN pc.stepsResultsDB :
                 /\ k.stepNumber = ser.stepNumber
                 /\ k.status = ser.status
                 /\ k.dependentRecords = ser.dependentRecords})]

----------------------------------------------------------------------------
\* PersistanceContext.  The records cache is written at once; the write to
\* the database is issued and left pending (no caller awaits it), and the
\* database applies the pending writes one at a time in the order of issue.
\* A write that reaches a closed database fails and changes nothing on disk.

MapPut(f, k, v) == [x \in DOMAIN f \cup {k} |-> IF x = k THEN v ELSE f[x]]

MapDel(f, k) == [x \in DOMAIN f \ {k} |-> f[x]]

putStepResult(pc, key, value) ==
  [pc EXCEPT !.queue = Append(@, [op |-> "put", db |-> "steps", key |-> key, value |-> value])]

delStepResultKey(pc, key) ==
  [pc EXCEPT !.queue = Append(@, [op |-> "del", db |-> "steps", key |-> key, value |-> key])]

putRecordStatus(pc, key, value) ==
  [pc EXCEPT !.recordsDBCache = MapPut(@, key, value),
             !.queue = Append(@, [op |-> "put", db |-> "records", key |-> key, value |-> value])]

\* delRecordStatus that leaves the entry in the cache.
delRecordStatus_cacheKept(pc, key) ==
  [pc EXCEPT !.queue = Append(@, [op |-> "del", db |-> "records", key |-> key, value |-> key])]

delRecordStatus(pc, key) ==
  [pc EXCEPT !.recordsDBCache = MapDel(@, key),
             !.queue = Append(@, [op |-> "del", db |-> "records", key |-> key, value |-> key])]

\* putBatchStatusSync: one key of the status database.
putBatchStatusSync(pc, key, value) ==
  [pc EXCEPT !.queue = Append(@, [op |-> "put", db |-> "status", key |-> key, value |-> value])]

\* saveAllRecord: every key of the status database in one batch write.
saveAllRecord(pc, batchStatus) ==
  [pc EXCEPT !.queue = Append(@, [op |-> "batch", db |-> "status", key |-> "all",
                                  value |-> batchStatus])]

\* The database applies the oldest pending write.
applyWrite(pc) ==
  LET w == Head(pc.queue)
      applied(f) == IF w.op = "put" THEN MapPut(f, w.key, w.value) ELSE MapDel(f, w.key)
  IN [pc EXCEPT !.queue = Tail(@),
                !.recordsDB = IF pc.open /\ w.db = "records" THEN applied(@) ELSE @,
                !.stepsResultsDB = IF pc.open /\ w.db = "steps" THEN applied(@) ELSE @,
                !.statusDB = IF pc.open /\ w.db = "status"
                             THEN IF w.op = "batch" THEN w.value
                                  ELSE [@ EXCEPT ![w.key] = w.value]
                             ELSE @]

\* The database rejects the oldest pending write: nothing changes on disk
\* and the promise of the put or del is rejected.  `rejected` keeps the
\* records whose row or snapshot the write was for.
rejectWrite(pc) ==
  LET w == Head(pc.queue)
      affected == IF w.db = "records" THEN {w.key}
                  ELSE {w.value.dependentRecords[k] : k \in 1..Len(w.value.dependentRecords)}
  IN [pc EXCEPT !.queue = Tail(@), !.rejected = @ \cup affected]

closeAllDBs(pc) == [pc EXCEPT !.open = FALSE]

createExecutionPersistanceContext ==
  [recordsDBCache |-> <<>>, recordsDB |-> <<>>, stepsResultsDB |-> <<>>,
   statusDB |-> [loadedRecords |-> 0, lastLoadedRecordId |-> 0, failedRecords |-> 0,
                 status |-> "NOT_STARTED"],
   rejected |-> {}, queue |-> <<>>, open |-> TRUE]

----------------------------------------------------------------------------
\* StepExecutionResult.updateAddingStepExecResult: the checkpoint.

RECURSIVE updateDependentRecords(_, _, _)

\* The loop without the branch of the last step: a finalized record keeps
\* its row.
updateDependentRecords_neverFinalizes(pc, ser, i) ==
  IF i > Len(ser.dependentRecords) THEN pc
  ELSE LET rec == ser.dependentRecords[i]
           pc1 == IF rec \in DOMAIN pc.recordsDBCache
                  THEN delStepResultKey(pc, pc.recordsDBCache[rec].id)
                  ELSE pc
           pc2 == putRecordStatus(pc1, rec, getNiceObjectToLogRecord(ser))
       IN updateDependentRecords(pc2, ser, i + 1)

\* The loop taking a FAILED result for a terminal one too: a failed record
\* loses its row.
updateDependentRecords_failedDropsRow(pc, ser, i) ==
  IF i > Len(ser.dependentRecords) THEN pc
  ELSE LET rec == ser.dependentRecords[i]
           pc1 == IF rec \in DOMAIN pc.recordsDBCache
                  THEN delStepResultKey(pc, pc.recordsDBCache[rec].id)
                  ELSE pc
           pc2 == IF (ser.status = "SUCCESSFUL" /\ ser.isLastOne) \/ ser.status = "FAILED"
                  THEN delRecordStatus(pc1, rec)
                  ELSE putRecordStatus(pc1, rec, getNiceObjectToLogRecord(ser))
       IN updateDependentRecords(pc2, ser, i + 1)

\* The loop of updateAddingStepExecResult over the dependent records, from
\* the i-th on.
updateDependentRecords(pc, ser, i) ==
  IF i > Len(ser.dependentRecords) THEN pc
  ELSE LET rec == ser.dependentRecords[i]
           pc1 == IF rec \in DOMAIN pc.recordsDBCache
                  THEN delStepResultKey(pc, pc.recordsDBCache[rec].id)
                  ELSE pc
           pc2 == IF ser.status = "SUCCESSFUL" /\ ser.isLastOne
                  THEN delRecordStatus(pc1, rec)
                  ELSE putRecordStatus(pc1, rec, getNiceObjectToLogRecord(ser))
       IN updateDependentRecords(pc2, ser, i + 1)

\* The checkpoint that stores no snapshot of an ACCUMULATING result.
updateAddingStepExecResult_noAccumulatingSnapshot(pc, ser0) ==
  LET ser == [ser0 EXCEPT !.id = uuidv1(pc, ser0)]
      pc1 == IF ser.status = "ACCUMULATING" THEN pc
             ELSE putStepResult(pc, ser.id, getNiceObjectToLogStepResult(ser))
  IN [pc |-> updateDependentRecords(pc1, ser, 1), ser |-> ser]

updateAddingStepExecResult(pc, ser0) ==
  LET ser == [ser0 EXCEPT !.id = uuidv1(pc, ser0)]
      pc1 == putStepResult(pc, ser.id, getNiceObjectToLogStepResult(ser))
  IN [pc |-> updateDependentRecords(pc1, ser, 1), ser |-> ser]

----------------------------------------------------------------------------
\* BatchStep.  `st` carries what a call changes: the buffers of every step
\* and the persistance context.  A call returns the new `st`, the step result
\* it stopped with, and where it stopped: "step" (awaiting the client step)
\* or "ret" (returning the result to its caller).

getCurrentStepStatus(st, i, stepState) ==
  StepExecutionResult(i, stepState, st.dra[i], st.ppa[i], <<>>, isLastOne(i))

\* resetAggregator that leaves the record ids in the buffer.
resetAggregator_recordsKept(st, i) == [st EXCEPT !.ppa[i] = <<>>]

\* resetAggregator that leaves the payloads in the buffer.
resetAggregator_payloadsKept(st, i) == [st EXCEPT !.dra[i] = <<>>]

resetAggregator(st, i) == [st EXCEPT !.dra[i] = <<>>, !.ppa[i] = <<>>]

Checkpointed(st, ser, at, flag) ==
  LET u == updateAddingStepExecResult(st.pc, ser)
  IN [st |-> [st EXCEPT !.pc = u.pc], ser |-> u.ser, at |-> at, flag |-> flag]

RECURSIVE executeClientStep(_, _, _)
executeClientStep(st, i, resumeFlagCount) ==
  LET stepCurrentState == getCurrentStepStatus(st, i, "NONE")
      st1 == resetAggregator(st, i)
  IN IF Len(stepCurrentState.accPayload) > 0 /\ Len(stepCurrentState.dependentRecords) > 0
     THEN Checkpointed(st1, [stepCurrentState EXCEPT !.status = "PROCESSING"],
                       "step", resumeFlagCount)
     ELSE IF i < getStepsCount
          THEN executeClientStep(st1, i + 1, resumeFlagCount - 1)
          ELSE Checkpointed(st1, [stepCurrentState EXCEPT !.status = "SUCCESSFUL"],
                            "ret", resumeFlagCount)

\* execute that runs the client step one payload early.
execute_onePayloadEarly(st, i, previousStepResult, resumeFlagCount) ==
  LET st1 == [st EXCEPT
                !.dra[i] = @ \o previousStepResult.dependentRecords,
                !.ppa[i] = IF previousStepResult.outputPayload # <<>>
                           THEN Append(@, previousStepResult.outputPayload)
                           ELSE @]
  IN IF Len(st1.ppa[i]) + 1 >= aggregationQuantity[i] \/ resumeFlagCount > 0
     THEN executeClientStep(st1, i, resumeFlagCount - 1)
     ELSE Checkpointed(st1, getCurrentStepStatus(st1, i, "ACCUMULATING"),
                       "ret", resumeFlagCount)

\* execute that buffers the payload without the records it depends on.
execute_recordsNotBuffered(st, i, previousStepResult, resumeFlagCount) ==
  LET st1 == [st EXCEPT
                !.ppa[i] = IF previousStepResult.outputPayload # <<>>
                           THEN Append(@, previousStepResult.outputPayload)
                           ELSE @]
  IN IF Len(st1.ppa[i]) >= aggregationQuantity[i] \/ resumeFlagCount > 0
     THEN executeClientStep(st1, i, resumeFlagCount - 1)
     ELSE Checkpointed(st1, getCurrentStepStatus(st1, i, "ACCUMULATING"),
                       "ret", resumeFlagCount)

execute(st, i, previousStepResult, resumeFlagCount) ==
  LET st1 == [st EXCEPT
                !.dra[i] = @ \o previousStepResult.dependentRecords,
                !.ppa[i] = IF previousStepResult.outputPayload # <<>>
                           THEN Append(@, previousStepResult.outputPayload)
                           ELSE @]
  IN IF Len(st1.ppa[i]) >= aggregationQuantity[i] \/ resumeFlagCount > 0
     THEN executeClientStep(st1, i, resumeFlagCount - 1)
     ELSE Checkpointed(st1, getCurrentStepStatus(st1, i, "ACCUMULATING"),
                       "ret", resumeFlagCount)

\* The rest of executeClientStep once `await this.step(...)` has settled.
clientStepResolved(st, ser, resumeFlagCount) ==
  LET out == [ser EXCEPT !.outputPayload = ser.dependentRecords,
                         !.status = "SUCCESSFUL"]
  IN IF ser.stepNumber < getStepsCount
     THEN execute(st, ser.stepNumber + 1, out, resumeFlagCount)
     ELSE Checkpointed(st, out, "ret", resumeFlagCount)

\* The same when the client step resolved with null: the step result handed
\* to the successor has no output payload.
clientStepResolvedNull(st, ser, resumeFlagCount) ==
  LET out == [ser EXCEPT !.outputPayload = <<>>,
                         !.status = "SUCCESSFUL"]
  IN IF ser.stepNumber < getStepsCount
     THEN execute(st, ser.stepNumber + 1, out, resumeFlagCount)
     ELSE Checkpointed(st, out, "ret", resumeFlagCount)

\* The catch block handing the FAILED result on to the successor.
clientStepRejected_callsSuccessor(st, ser, resumeFlagCount) ==
  IF ser.stepNumber < getStepsCount
  THEN execute(st, ser.stepNumber + 1, [ser EXCEPT !.status = "FAILED"], resumeFlagCount)
  ELSE Checkpointed(st, [ser EXCEPT !.status = "FAILED"], "ret", resumeFlagCount)

clientStepRejected(st, ser, resumeFlagCount) ==
  Checkpointed(st, [ser EXCEPT !.status = "FAILED"], "ret", resumeFlagCount)

----------------------------------------------------------------------------
\* Glue between the operators above and the variables.

State == [dra |-> dependentRecordsAcc, ppa |-> previousStepPayloadAcc,
          pc |-> persistanceContext]

\* executeRecordSteps returning the records of a FAILED result twice over.
successfulDependentRecords_failedTwice(ser) ==
  IF ser.status = "FAILED" THEN 2 * Len(ser.dependentRecords)
  ELSE IF ser.status = "SUCCESSFUL" /\ ser.stepNumber = getStepsCount
       THEN Len(ser.dependentRecords)
       ELSE 0

\* executeRecordSteps returning the dependent records of any result.
successfulDependentRecords_ofAnyResult(ser) == Len(ser.dependentRecords)

\* executeRecordSteps returning 0 for a FAILED result.
successfulDependentRecords_failedNotReleased(ser) ==
  IF ser.status = "SUCCESSFUL" /\ ser.stepNumber = getStepsCount
  THEN Len(ser.dependentRecords)
  ELSE 0

\* What executeRecordSteps returns for the result of the chain.
successfulDependentRecords(ser) ==
  IF ser.status = "FAILED" THEN Len(ser.dependentRecords)
  ELSE IF ser.status = "SUCCESSFUL" /\ ser.stepNumber = getStepsCount
       THEN Len(ser.dependentRecords)
       ELSE 0

\* A suspended call.  A worker that gets a result other than FAILED back
\* changes nothing until doPostCommonRecordTasks runs, so it waits at "post"
\* at once; with a FAILED result it waits at "ret" for executeRecordSteps to
\* count the failed records first.
Task(kind, r) ==
  IF kind = "worker" /\ r.at = "ret" /\ r.ser.status # "FAILED"
  THEN [kind |-> kind, at |-> "post", ser |-> r.ser, flag |-> r.flag,
        n |-> successfulDependentRecords(r.ser)]
  ELSE [kind |-> kind, at |-> r.at, ser |-> r.ser, flag |-> r.flag, n |-> 0]

FinalizedBy(r) ==
  IF r.at = "ret" /\ r.ser.status = "SUCCESSFUL" /\ r.ser.isLastOne
  THEN Range(r.ser.dependentRecords) ELSE {}

\* The chain stopped with r: store what it changed; `old` is the task that
\* ran (none for a fresh call), `kind` the caller awaiting the chain.
Stopped(r, kind, old) ==
  /\ dependentRecordsAcc' = r.st.dra
  /\ previousStepPayloadAcc' = r.st.ppa
  /\ persistanceContext' = r.st.pc
  /\ tasks' = (tasks \ old) \cup {Task(kind, r)}
  /\ finalized' = finalized \cup FinalizedBy(r)
  /\ stepCalls' = IF r.at = "step"
                  THEN [stepCalls EXCEPT ![r.ser.stepNumber] = Append(@, Len(r.ser.accPayload))]
                  ELSE stepCalls

----------------------------------------------------------------------------
\* Builder.addStep and the successor links of BatchStep.

Instances == 1..MaxInstances

\* undefined
NoStep == 0

\* The steps reached from `this` over at most n successor links.
RECURSIVE ReachedFrom(_, _, _)
ReachedFrom(succ, this, n) ==
  IF this = NoStep \/ n = 0 THEN {}
  ELSE {this} \cup ReachedFrom(succ, succ[this], n - 1)

\* Whether the recursion of getStepsCount from `this` ends: some step within
\* reach has no successor.
Ends(succ, this) ==
  \E s \in ReachedFrom(succ, this, MaxInstances) : succ[s] = NoStep

\* BatchStep.getStepsCount, for a chain on which it ends.
RECURSIVE getStepsCountFrom(_, _)
getStepsCountFrom(succ, this) ==
  IF succ[this] = NoStep THEN 1 ELSE 1 + getStepsCountFrom(succ, succ[this])

\* BatchStep.addSuccessor on `this`, for a chain on which it ends: the new
\* links, and whether it threw.
RECURSIVE addSuccessor(_, _, _)
addSuccessor(succ, this, step) ==
  IF succ[this] = NoStep THEN [successor |-> [succ EXCEPT ![this] = step], threw |-> FALSE]
  ELSE IF succ[this] = step THEN [successor |-> succ, threw |-> TRUE]
  ELSE addSuccessor(succ, succ[this], step)

\* Builder.addStep(step).  On a chain that has become a cycle getStepsCount
\* recurses until the stack overflows, before anything is assigned.
addStep(step) ==
  /\ IF stepsChain = NoStep
     THEN /\ setNumber' = [setNumber EXCEPT ![step] = 1]
          /\ stepsChain' = step
          /\ addStepThrew' = FALSE
          /\ UNCHANGED successor
     ELSE IF ~Ends(successor, stepsChain)
     THEN /\ addStepThrew' = TRUE
          /\ UNCHANGED <<stepsChain, successor, setNumber>>
     ELSE LET r == addSuccessor(successor, stepsChain, step)
          IN /\ setNumber' = [setNumber EXCEPT
                                 ![step] = getStepsCountFrom(successor, stepsChain) + 1]
             /\ successor' = r.successor
             /\ addStepThrew' = r.threw
             /\ UNCHANGED stepsChain
  /\ UNCHANGED <<config, retryVars, execType, status, currentConcurrency, loadedRecords,
                 failedRecords, cursor, pendingGetNext, dependentRecordsAcc,
                 previousStepPayloadAcc, tasks, persistanceContext, finalized, stepCalls,
                 stepFailures, endCount>>

----------------------------------------------------------------------------
\* BatchStatus.

\* The BatchStatus object in memory, once the status writes it awaits have
\* resolved.  The id of a record is its position in the source.
batchStatus ==
  [loadedRecords |-> loadedRecords, lastLoadedRecordId |-> cursor,
   failedRecords |-> failedRecords, status |-> status]

\* startBatchExecution: the status of the new execution is written.
startBatchExecution(pc) == [pc EXCEPT !.statusDB.status = "PROCESSING_INJECTING"]

\* The status writes of doPreCommonRecordTasks for the record `id`:
\* addOneToLoadedRecords puts the key loadedRecords alone and adds one in
\* memory only when that write has resolved; then lastLoadedRecordId is set
\* and save() writes the object as it is in memory at that moment.
doPreCommonRecordTasks(pc, id) ==
  saveAllRecord(putBatchStatusSync(pc, "loadedRecords", batchStatus.loadedRecords + 1),
                [batchStatus EXCEPT !.lastLoadedRecordId = id])

\* addLoadedRecords of retry: the key loadedRecords alone.
addLoadedRecords(pc, n) ==
  putBatchStatusSync(pc, "loadedRecords", batchStatus.loadedRecords + n)

\* addFailedRecords: the key failedRecords alone.
addFailedRecords(pc, n) ==
  putBatchStatusSync(pc, "failedRecords", batchStatus.failedRecords + n)

\* endBatchExecution that reports errors also when no record failed.
endBatchExecution_zeroFailedIsError(failed) ==
  /\ status' = IF failed >= 0 THEN "FINISHED_WITH_ERRORS"
               ELSE "FINISHED_SUCCESSFULLY"
  /\ endCount' = endCount + 1
  /\ persistanceContext' =
       closeAllDBs(IF persistanceContext.open
                   THEN [persistanceContext EXCEPT !.statusDB.status = status']
                   ELSE persistanceContext)

\* endBatchExecution awaits the write of the final status before it closes
\* the databases.
endBatchExecution(failed) ==
  /\ status' = IF failed > 0 THEN "FINISHED_WITH_ERRORS"
               ELSE "FINISHED_SUCCESSFULLY"
  /\ endCount' = endCount + 1
  /\ persistanceContext' =
       closeAllDBs(IF persistanceContext.open
                   THEN [persistanceContext EXCEPT !.statusDB.status = status']
                   ELSE persistanceContext)

Finished == {"FINISHED_WITH_ERRORS", "FINISHED_SUCCESSFULLY"}

----------------------------------------------------------------------------
\* The job as Builder.build returns it, but for the concurrency multiplier.
Built ==
  /\ aggregationQuantity \in Chains
  /\ sourceSize \in 0..MaxRecords
  /\ execType = "RUN"
  /\ status = "NOT_STARTED"
  /\ currentConcurrency = 0
  /\ loadedRecords = 0
  /\ failedRecords = 0
  /\ cursor = 0
  /\ pendingGetNext = 0
  /\ dependentRecordsAcc = [i \in 1..Len(aggregationQuantity) |-> <<>>]
  /\ previousStepPayloadAcc = [i \in 1..Len(aggregationQuantity) |-> <<>>]
  /\ tasks = {}
  /\ persistanceContext = [createExecutionPersistanceContext EXCEPT !.open = FALSE]
  /\ recoveredPersistanceContext = [createExecutionPersistanceContext EXCEPT !.open = FALSE]
  /\ streamPos = [i \in 1..Len(aggregationQuantity) |-> 0]
  /\ streamEnded = [i \in 1..Len(aggregationQuantity) |-> FALSE]
  /\ alreadyReMake = {}
  /\ injections = <<>>
  /\ finalized = {}
  /\ stepFailures = 0
  /\ stepCalls = [i \in 1..Len(aggregationQuantity) |-> <<>>]
  /\ endCount = 0
  /\ stepsChain = NoStep
  /\ successor = [s \in Instances |-> NoStep]
  /\ setNumber = [s \in Instances |-> 0]
  /\ addStepThrew = FALSE

\* A job built with a positive concurrency multiplier.
Init ==
  /\ concurrencyMultiplier \in 1..MaxMultiplier
  /\ Built

\* A job built with any concurrency multiplier the Builder takes: the field
\* is 0 unless Builder.concurrencyMultiplier is called, and build tests nothing.
InitAnyMultiplier ==
  /\ concurrencyMultiplier \in 0..MaxMultiplier
  /\ Built

\* The engine takes its next step when the database has applied the writes
\* of the last checkpoint.
Synced == persistanceContext.queue = <<>>

\* The database applies one pending write.
flush ==
  /\ persistanceContext.queue # <<>>
  /\ persistanceContext' = applyWrite(persistanceContext)
  /\ UNCHANGED <<config, builder, retryVars, execType, status, currentConcurrency, loadedRecords,
                 failedRecords, cursor, pendingGetNext, dependentRecordsAcc,
                 previousStepPayloadAcc, tasks, finalized, stepCalls, stepFailures, endCount>>

\* The write of a records row or of a snapshot by a checkpoint fails, as
\* long as fewer than MaxWriteFailures records of the execution have been hit.
writeFails ==
  /\ persistanceContext.queue # <<>>
  /\ persistanceContext.open
  /\ \/ Head(persistanceContext.queue).db = "records"
     \/ /\ Head(persistanceContext.queue).db = "steps"
        /\ Head(persistanceContext.queue).op = "put"
        /\ Head(persistanceContext.queue).value.dependentRecords # <<>>
  /\ Cardinality(persistanceContext.rejected) < MaxWriteFailures
  /\ persistanceContext' = rejectWrite(persistanceContext)
  /\ UNCHANGED <<config, builder, retryVars, execType, status, currentConcurrency,
                 loadedRecords, failedRecords, cursor, pendingGetNext, dependentRecordsAcc,
                 previousStepPayloadAcc, tasks, finalized, stepCalls, stepFailures, endCount>>

\* run with a loop that starts one worker too many.
run_oneWorkerTooMany ==
  /\ Synced
  /\ status = "NOT_STARTED"
  /\ execType = "RUN"
  /\ status' = "PROCESSING_INJECTING"
  /\ persistanceContext' = startBatchExecution(createExecutionPersistanceContext)
  /\ pendingGetNext' = maxConcurrentRecords + 1
  /\ UNCHANGED <<config, builder, retryVars, execType, currentConcurrency, loadedRecords, failedRecords,
                 cursor, dependentRecordsAcc, previousStepPayloadAcc, tasks,
                 finalized, stepCalls, stepFailures, endCount>>

\* BatchJob.run: start the execution and one doNextObj per slot; each runs to
\* its `await this.getNext()`.
run ==
  /\ Synced
  /\ status = "NOT_STARTED"
  /\ execType = "RUN"
  /\ status' = "PROCESSING_INJECTING"
  /\ persistanceContext' = startBatchExecution(createExecutionPersistanceContext)
  /\ pendingGetNext' = maxConcurrentRecords
  /\ UNCHANGED <<config, builder, retryVars, execType, currentConcurrency, loadedRecords, failedRecords,
                 cursor, dependentRecordsAcc, previousStepPayloadAcc, tasks,
                 finalized, stepCalls, stepFailures, endCount>>

\* doNextObj after getNext resolved with a record: doPreCommonRecordTasks,
\* then executeRecordSteps up to the first await inside the chain.
doNextObjRecord ==
  /\ Synced
  /\ pendingGetNext > 0
  /\ cursor < sourceSize
  /\ LET id == cursor + 1
         bootStrapStepResult ==
           StepExecutionResult(0, "SUCCESSFUL", <<id>>, <<>>, <<id>>, FALSE)
         st == [State EXCEPT !.pc = doPreCommonRecordTasks(@, id)]
     IN Stopped(execute(st, 1, bootStrapStepResult, 0), "worker", {})
  /\ pendingGetNext' = pendingGetNext - 1
  /\ cursor' = cursor + 1
  /\ currentConcurrency' = currentConcurrency + 1
  /\ loadedRecords' = loadedRecords + 1
  /\ UNCHANGED <<config, builder, retryVars, execType, status, failedRecords, stepFailures, endCount>>

\* doNextObj after getNext resolved with null.
doNextObjNull ==
  /\ Synced
  /\ pendingGetNext > 0
  /\ cursor = sourceSize
  /\ pendingGetNext' = pendingGetNext - 1
  /\ status' = IF status = "PROCESSING_INJECTING" THEN "PROCESSING_WAITING" ELSE status
  /\ persistanceContext' =
       IF status = "PROCESSING_INJECTING"
       THEN saveAllRecord(persistanceContext,
                          [batchStatus EXCEPT !.status = "PROCESSING_WAITING"])
       ELSE persistanceContext
  /\ UNCHANGED <<config, builder, retryVars, execType, currentConcurrency, loadedRecords, failedRecords,
                 cursor, dependentRecordsAcc, previousStepPayloadAcc, tasks,
                 finalized, stepCalls, stepFailures, endCount>>

\* doNextObj after getNext resolved with null while an earlier call of getNext
\* is still pending with a record: more calls are pending than the source
\* has records left, so the source has answered one of them with null, and
\* that answer arrives first.
doNextObjNullFirst ==
  /\ Synced
  /\ pendingGetNext > sourceSize - cursor
  /\ cursor < sourceSize
  /\ pendingGetNext' = pendingGetNext - 1
  /\ status' = IF status = "PROCESSING_INJECTING" THEN "PROCESSING_WAITING" ELSE status
  /\ persistanceContext' =
       IF status = "PROCESSING_INJECTING"
       THEN saveAllRecord(persistanceContext,
                          [batchStatus EXCEPT !.status = "PROCESSING_WAITING"])
       ELSE persistanceContext
  /\ UNCHANGED <<config, builder, retryVars, execType, currentConcurrency, loadedRecords, failedRecords,
                 cursor, dependentRecordsAcc, previousStepPayloadAcc, tasks,
                 finalized, stepCalls, stepFailures, endCount>>

\* The client step of a batch resolves.
stepResolves(t) ==
  /\ Synced
  /\ t.at = "step"
  /\ Stopped(clientStepResolved(State, t.ser, t.flag), t.kind, {t})
  /\ UNCHANGED <<config, builder, retryVars, execType, status, currentConcurrency, loadedRecords,
                 failedRecords, cursor, pendingGetNext, stepFailures, endCount>>

\* The client step of a batch resolves with null.
stepResolvesNull(t) ==
  /\ Synced
  /\ t.at = "step"
  /\ Stopped(clientStepResolvedNull(State, t.ser, t.flag), t.kind, {t})
  /\ UNCHANGED <<config, builder, retryVars, execType, status, currentConcurrency, loadedRecords,
                 failedRecords, cursor, pendingGetNext, stepFailures, endCount>>

\* The client step of a batch rejects.
stepRejects(t) ==
  /\ Synced
  /\ t.at = "step"
  /\ Stopped(clientStepRejected(State, t.ser, t.flag), t.kind, {t})
  /\ stepFailures' = stepFailures + 1
  /\ UNCHANGED <<config, builder, retryVars, execType, status, currentConcurrency, loadedRecords,
                 failedRecords, cursor, pendingGetNext, endCount>>

\* executeRecordSteps once the chain returned a FAILED result: count the
\* failed records and return their number.
executeRecordSteps(t) ==
  /\ Synced
  /\ t.kind = "worker"
  /\ t.at = "ret"
  /\ failedRecords' = failedRecords + Len(t.ser.dependentRecords)
  /\ persistanceContext' = addFailedRecords(persistanceContext, Len(t.ser.dependentRecords))
  /\ tasks' = (tasks \ {t}) \cup
              {[t EXCEPT !.at = "post", !.n = successfulDependentRecords(t.ser)]}
  /\ UNCHANGED <<config, builder, retryVars, execType, status, currentConcurrency, loadedRecords, cursor,
                 pendingGetNext, dependentRecordsAcc, previousStepPayloadAcc,
                 finalized, stepCalls, stepFailures, endCount>>

\* The end of doPostCommonRecordTasks: the job is finished when nothing is
\* in flight and nothing is parked.
FinishIfIdle(concurrency) ==
  IF concurrency <= 0 /\ recordsInTheChain = 0
  THEN endBatchExecution(failedRecords)
  ELSE UNCHANGED <<status, endCount, persistanceContext>>

\* doPostCommonRecordTasks up to `await this.resume()` or to its end.
doPostCommonRecordTasks(t) ==
  /\ Synced
  /\ t.kind = "worker"
  /\ t.at = "post"
  /\ currentConcurrency' = currentConcurrency - t.n
  /\ UNCHANGED <<config, builder, retryVars, execType, loadedRecords, failedRecords, cursor, stepFailures>>
  /\ CASE status = "PROCESSING_INJECTING" ->
            /\ pendingGetNext' = pendingGetNext + t.n
            /\ tasks' = tasks \ {t}
            /\ UNCHANGED <<status, dependentRecordsAcc, previousStepPayloadAcc,
                           persistanceContext, finalized, stepCalls, endCount>>
       [] status = "PROCESSING_WAITING" ->
            IF /\ recordsInTheChain < getTotalStepsNeeded
               /\ recordsInTheChain = currentConcurrency - t.n
            THEN /\ Stopped(executeClientStep(State, 1, getStepsCount - 1), "resume", {t})
                 /\ UNCHANGED <<status, pendingGetNext, endCount>>
            ELSE /\ tasks' = tasks \ {t}
                 /\ FinishIfIdle(currentConcurrency - t.n)
                 /\ UNCHANGED <<pendingGetNext, dependentRecordsAcc,
                                previousStepPayloadAcc, finalized, stepCalls>>
       [] OTHER ->
            /\ tasks' = tasks \ {t}
            /\ UNCHANGED <<status, pendingGetNext, dependentRecordsAcc,
                           previousStepPayloadAcc, persistanceContext, finalized, stepCalls,
                           endCount>>

\* resume that subtracts the records of a successful result only.
resume_failedNotSubtracted(t) ==
  /\ Synced
  /\ t.kind = "resume"
  /\ t.at = "ret"
  /\ LET len == Len(t.ser.dependentRecords)
     IN /\ failedRecords' = IF t.ser.status = "FAILED" THEN failedRecords + len
                            ELSE failedRecords
        /\ currentConcurrency' = IF t.ser.status = "FAILED" THEN currentConcurrency
                                 ELSE currentConcurrency - len
  /\ persistanceContext' =
       IF t.ser.status = "FAILED"
       THEN addFailedRecords(persistanceContext, Len(t.ser.dependentRecords))
       ELSE persistanceContext
  /\ tasks' = (tasks \ {t}) \cup {[t EXCEPT !.at = "post"]}
  /\ UNCHANGED <<config, builder, retryVars, execType, status, loadedRecords, cursor, pendingGetNext,
                 dependentRecordsAcc, previousStepPayloadAcc,
                 finalized, stepCalls, stepFailures, endCount>>

\* BatchJob.resume once the forced chain execution returned.
resume(t) ==
  /\ Synced
  /\ t.kind = "resume"
  /\ t.at = "ret"
  /\ LET len == Len(t.ser.dependentRecords)
     IN /\ failedRecords' = IF t.ser.status = "FAILED" THEN failedRecords + len
                            ELSE failedRecords
        /\ currentConcurrency' = currentConcurrency - len
  /\ persistanceContext' =
       IF t.ser.status = "FAILED"
       THEN addFailedRecords(persistanceContext, Len(t.ser.dependentRecords))
       ELSE persistanceContext
  /\ tasks' = (tasks \ {t}) \cup {[t EXCEPT !.at = "post"]}
  /\ UNCHANGED <<config, builder, retryVars, execType, status, loadedRecords, cursor, pendingGetNext,
                 dependentRecordsAcc, previousStepPayloadAcc,
                 finalized, stepCalls, stepFailures, endCount>>

\* doPostCommonRecordTasks after `await this.resume()`.
doPostAfterResume(t) ==
  /\ Synced
  /\ t.kind = "resume"
  /\ t.at = "post"
  /\ tasks' = tasks \ {t}
  /\ FinishIfIdle(currentConcurrency)
  /\ UNCHANGED <<config, builder, retryVars, execType, currentConcurrency, loadedRecords, failedRecords,
                 cursor, pendingGetNext, dependentRecordsAcc, previousStepPayloadAcc,
                 finalized, stepCalls, stepFailures>>

----------------------------------------------------------------------------
\* BatchJob.retry.

\* The records database is read in key order.
NthKey(S, p) == CHOOSE k \in S : Cardinality({x \in S : x < k}) = p - 1

IncompleteRecords == DOMAIN recoveredPersistanceContext.recordsDB

\* BatchStep.injectRecoveredState: the buffers of step i take the dependent
\* records and the accumulated payloads of the recovered step result.
injectRecoveredState(st, stepResult, i) ==
  [st EXCEPT !.dra[i] = @ \o stepResult.dependentRecords,
             !.ppa[i] = @ \o stepResult.accPayload]

\* The process of an execution has ended when nothing of it is pending.
Quiescent == tasks = {} /\ pendingGetNext = 0 /\ persistanceContext.queue = <<>>

\* recoverExecutionPersistanceContext opens the databases of the execution
\* that ended.  retry reads a step result only through the id in a records
\* row, so the recovered context keeps the referenced step results only.
recoverExecutionPersistanceContext(pc) ==
  [recordsDBCache |-> <<>>,
   recordsDB |-> pc.recordsDB,
   stepsResultsDB |-> [k \in {pc.recordsDB[r].id : r \in DOMAIN pc.recordsDB}
                          \cap DOMAIN pc.stepsResultsDB |-> pc.stepsResultsDB[k]],
   statusDB |-> pc.statusDB,
   rejected |-> {}, queue |-> <<>>, open |-> TRUE]

\* retry up to the end of its loop: recover the databases of the finished
\* execution, start a RETRY execution and open one records stream per step.
\* The job that retries is a new job built with the same chain; retry reads
\* neither its source nor its concurrency multiplier.
retry ==
  /\ execType = "RUN"
  /\ status \in Finished
  /\ Quiescent
  /\ execType' = "RETRY"
  /\ recoveredPersistanceContext' = recoverExecutionPersistanceContext(persistanceContext)
  /\ persistanceContext' = startBatchExecution(createExecutionPersistanceContext)
  /\ status' = "PROCESSING_INJECTING"
  /\ currentConcurrency' = 0
  /\ loadedRecords' = 0
  /\ failedRecords' = 0
  /\ cursor' = 0
  /\ dependentRecordsAcc' = [i \in 1..getStepsCount |-> <<>>]
  /\ previousStepPayloadAcc' = [i \in 1..getStepsCount |-> <<>>]
  /\ streamPos' = [i \in 1..getStepsCount |-> 0]
  /\ streamEnded' = [i \in 1..getStepsCount |-> FALSE]
  /\ alreadyReMake' = {}
  /\ injections' = <<>>
  /\ finalized' = {}
  /\ stepFailures' = 0
  /\ stepCalls' = [i \in 1..getStepsCount |-> <<>>]
  /\ endCount' = 0
  /\ concurrencyMultiplier' = 1
  /\ sourceSize' = 0
  /\ UNCHANGED <<aggregationQuantity, pendingGetNext, tasks, builder>>

\* ReMakes without the test of alreadyReMake.
ReMakes_everyRow(i, p) ==
  LET value == recoveredPersistanceContext.recordsDB[NthKey(IncompleteRecords, p)]
  IN value.step = i

\* Whether the 'data' handler of the stream of step i does anything for the
\* p-th row: the row is parked at step i and its step result is not re-made yet.
ReMakes(i, p) ==
  LET value == recoveredPersistanceContext.recordsDB[NthKey(IncompleteRecords, p)]
  IN value.id \notin alreadyReMake /\ value.step = i

\* The next row of the stream of step i whose handler does something.
NextReMade(i) ==
  {p \in (streamPos[i] + 1)..Cardinality(IncompleteRecords) :
     /\ ReMakes(i, p)
     /\ \A o \in (streamPos[i] + 1)..(p - 1) : ~ReMakes(i, o)}

\* The 'data' handler of the stream of step i, up to
\* `await this.recoveredPersistanceContext.getStepResultKey(...)`, together
\* with the handlers of the rows before it that return at once.
streamData(i) ==
  /\ Synced
  /\ execType = "RETRY"
  /\ \E p \in NextReMade(i) :
       LET value == recoveredPersistanceContext.recordsDB[NthKey(IncompleteRecords, p)]
       IN /\ streamPos' = [streamPos EXCEPT ![i] = p]
          /\ alreadyReMake' = alreadyReMake \cup {value.id}
          /\ tasks' = tasks \cup
               {[kind |-> "recover", at |-> "fetch", flag |-> 0, n |-> 0,
                 ser |-> [StepExecutionResult(i, "NONE", <<>>, <<>>, <<>>, FALSE)
                            EXCEPT !.id = value.id]]}
  /\ UNCHANGED <<config, builder, recoveredPersistanceContext, streamEnded, injections, execType, status,
                 currentConcurrency, loadedRecords, failedRecords, cursor,
                 pendingGetNext, dependentRecordsAcc, previousStepPayloadAcc,
                 persistanceContext, finalized, stepCalls, stepFailures, endCount>>

\* The 'end' handler of the stream of step i: every row has been emitted.
streamEnd(i) ==
  /\ Synced
  /\ execType = "RETRY"
  /\ NextReMade(i) = {}
  /\ ~streamEnded[i]
  /\ streamEnded' = [streamEnded EXCEPT ![i] = TRUE]
  /\ endBatchExecution(failedRecords)
  /\ streamPos' = [streamPos EXCEPT ![i] = Cardinality(IncompleteRecords)]
  /\ UNCHANGED <<config, builder, recoveredPersistanceContext, alreadyReMake, injections,
                 execType, currentConcurrency, loadedRecords, failedRecords, cursor,
                 pendingGetNext, dependentRecordsAcc, previousStepPayloadAcc, tasks,
                 finalized, stepCalls, stepFailures>>

\* The 'data' handler once the recovered step result arrived: re-inject it
\* and run resumeRecover up to the first await inside the chain.
reInject(t) ==
  /\ Synced
  /\ t.kind = "recover"
  /\ t.at = "fetch"
  /\ t.ser.id \in DOMAIN recoveredPersistanceContext.stepsResultsDB
  /\ LET stepResult == recoveredPersistanceContext.stepsResultsDB[t.ser.id]
         st == [injectRecoveredState(State, stepResult, t.ser.stepNumber)
                  EXCEPT !.pc = addLoadedRecords(@, Len(stepResult.dependentRecords))]
     IN /\ loadedRecords' = loadedRecords + Len(stepResult.dependentRecords)
        /\ currentConcurrency' = currentConcurrency + recordsInTheChainOf(st.dra)
        /\ Stopped(executeClientStep(st, 1, getStepsCount - 1), "recover", {t})
  /\ injections' = MapPut(injections, t.ser.id,
                          IF t.ser.id \in DOMAIN injections
                          THEN injections[t.ser.id] + 1 ELSE 1)
  /\ UNCHANGED <<config, builder, recoveredPersistanceContext, streamPos, streamEnded,
                 alreadyReMake, execType, status, failedRecords, cursor,
                 pendingGetNext, stepFailures, endCount>>

\* resumeRecover once the forced chain execution returned.
resumeRecover(t) ==
  /\ Synced
  /\ t.kind = "recover"
  /\ t.at = "ret"
  /\ LET len == Len(t.ser.dependentRecords)
     IN /\ failedRecords' = IF t.ser.status = "FAILED" THEN failedRecords + len
                            ELSE failedRecords
        /\ currentConcurrency' = currentConcurrency - len
  /\ persistanceContext' =
       IF t.ser.status = "FAILED"
       THEN addFailedRecords(persistanceContext, Len(t.ser.dependentRecords))
       ELSE persistanceContext
  /\ tasks' = tasks \ {t}
  /\ UNCHANGED <<config, builder, retryVars, execType, status, loadedRecords, cursor,
                 pendingGetNext, dependentRecordsAcc, previousStepPayloadAcc,
                 finalized, stepCalls, stepFailures, endCount>>

Next ==
  \/ flush
  \/ run
  \/ doNextObjRecord
  \/ doNextObjNull
  \/ \E t \in tasks : stepResolves(t)
  \/ \E t \in tasks : stepRejects(t)
  \/ \E t \in tasks : executeRecordSteps(t)
  \/ \E t \in tasks : doPostCommonRecordTasks(t)
  \/ \E t \in tasks : resume(t)
  \/ \E t \in tasks : doPostAfterResume(t)
  \/ retry
  \/ \E i \in 1..getStepsCount : streamData(i)
  \/ \E i \in 1..getStepsCount : streamEnd(i)
  \/ \E t \in tasks : reInject(t)
  \/ \E t \in tasks : resumeRecover(t)

Spec == Init /\ [][Next]_vars

\* The engine with a source whose answers arrive in any order.
NextAnyOrder == Next \/ doNextObjNullFirst

SpecAnyOrder == Init /\ [][NextAnyOrder]_vars

\* The engine for every job the Builder returns.
SpecAnyMultiplier == InitAnyMultiplier /\ [][Next]_vars

\* The Builder of one job, before build: any sequence of addStep.
InitBuilder ==
  /\ Init
  /\ aggregationQuantity = <<1>>
  /\ concurrencyMultiplier = 1
  /\ sourceSize = 0

NextBuilder == \E step \in Instances : addStep(step)

SpecBuilder == InitBuilder /\ [][NextBuilder]_vars

\* The engine on a database that may reject a write.
NextWriteFails == Next \/ writeFails

SpecWriteFails == Init /\ [][NextWriteFails]_vars

\* The engine with client steps that may resolve with null.
NextNullPayload == Next \/ \E t \in tasks : stepResolvesNull(t)

SpecNullPayload == Init /\ [][NextNullPayload]_vars

----------------------------------------------------------------------------
\* Properties.

\* Records whose user step is executing.
Executing == {t \in tasks : t.at = "step"}

\* An execution has come to rest: nothing of it is pending and, in a retry,
\* every records stream has ended.
AtRest ==
  /\ Quiescent
  /\ status # "NOT_STARTED"
  /\ execType = "RETRY" => \A i \in 1..getStepsCount : streamEnded[i]

C2_RunTerminates ==
  (execType = "RUN" /\ status # "NOT_STARTED" /\ ~ENABLED Next)
     => (status \in Finished /\ endCount > 0)

\* C3: end-of-batch is performed only where currentConcurrency is 0, no step
\* holds a record in its buffers and no user step is executing, in run and
\* in retry.
C3_EndOnlyWhenIdle ==
  [][endCount' = endCount + 1 =>
       /\ currentConcurrency' = 0
       /\ recordsInTheChain' = 0
       /\ tasks' \ {t \in tasks' : t.at \in {"ret", "post"}} = {}]_vars

\* C4: the final phase of a run or of a retry is FINISHED_SUCCESSFULLY if and
\* only if no user step invocation failed during it.
C4_FinalPhase ==
  AtRest /\ status \in Finished
    => (status = "FINISHED_SUCCESSFULLY" <=> stepFailures = 0)

\* The two namespaces on disk, and the records whose ids the source has
\* handed to the chain.
records == persistanceContext.recordsDB

steps == persistanceContext.stepsResultsDB

Entered == 1..cursor

\* The dependent records of the FAILED step results on disk.
Failed ==
  UNION {Range(steps[k].dependentRecords) : k \in {x \in DOMAIN steps : steps[x].status = "FAILED"}}

C7_RowsHaveSnapshots ==
  Synced => \A r \in DOMAIN records : records[r].id \in DOMAIN steps

\* C7 witness: two records share one snapshot that replaced the snapshots
\* each of them referenced before.
C7_Witness ==
  /\ Synced
  /\ \E r1, r2 \in DOMAIN records :
        /\ r1 # r2
        /\ records[r1].id = records[r2].id
        /\ records[r1].status = "PROCESSING"
        /\ records[r1].id \in DOMAIN steps

\* C8: at any crash point, also between two writes of one checkpoint, every
\* row of the records namespace on disk belongs to a record that entered the
\* chain and references a step snapshot that is on disk and lists the record.
\* (C8 asks in addition that no in-flight id is missing and that the
\* snapshot is the most recent one.)
C8_CrashConsistent ==
  persistanceContext.open =>
     \A r \in DOMAIN records :
        /\ execType = "RUN" => r \in Entered
        /\ records[r].id \in DOMAIN steps
        /\ r \in Range(steps[records[r].id].dependentRecords)

\* The sum of count[t] over the calls t of S.
RECURSIVE SumOver(_, _)
SumOver(S, count) ==
  IF S = {} THEN 0
  ELSE LET t == CHOOSE x \in S : TRUE IN count[t] + SumOver(S \ {t}, count)

\* Records of a terminal result that are counted as finalized or failed and
\* that the call holding the result has not yet subtracted from
\* currentConcurrency.
Unsubtracted(t) ==
  IF t.kind = "worker" /\ t.at = "post" THEN t.n
  ELSE IF t.kind = "resume" /\ t.at = "ret" /\ t.ser.status = "SUCCESSFUL"
       THEN Len(t.ser.dependentRecords)
       ELSE 0

\* Records that a call holds outside the buffers: in an executing user step
\* or in a terminal result not yet subtracted from currentConcurrency.
HeldBy(t) ==
  IF t.at = "step" THEN Len(t.ser.dependentRecords)
  ELSE IF t.kind = "worker" /\ t.at = "post" THEN t.n
  ELSE IF t.kind \in {"worker", "resume"} /\ t.at = "ret" THEN Len(t.ser.dependentRecords)
  ELSE 0

C10_ConcurrencyIsRecordsInChain ==
  [][(\E t \in tasks : doPostCommonRecordTasks(t)) =>
        currentConcurrency' = recordsInTheChain]_vars

\* C10 amended: during a run, and so when doPostCommonRecordTasks has
\* subtracted from currentConcurrency, currentConcurrency is the number of
\* records held in the buffers of the chain plus the records in executing
\* user steps and in terminal results not yet subtracted.
C10_ConcurrencyIsRecordsHeld ==
  execType = "RUN" =>
     currentConcurrency = recordsInTheChain + SumOver(tasks, [t \in tasks |-> HeldBy(t)])

\* C10 witness: doPostCommonRecordTasks has subtracted a finished record and
\* scheduled a refill while the user step of another record is executing.
C10_Witness ==
  /\ execType = "RUN"
  /\ status = "PROCESSING_INJECTING"
  /\ loadedRecords = maxConcurrentRecords
  /\ pendingGetNext > 0
  /\ Executing # {}
  /\ currentConcurrency > recordsInTheChain

C12_SingleStepCalls ==
  (execType = "RUN" /\ getStepsCount = 1 /\ AtRest) =>
     LET q == aggregationQuantity[1]
         n == sourceSize
     IN stepCalls[1] = [k \in 1..(n \div q) |-> q] \o
                         (IF n % q > 0 THEN <<n % q>> ELSE <<>>)

\* C13: once the status of a run has left PROCESSING_INJECTING no fresh
\* record enters the chain: no worker counts a loaded record or hands a
\* bootstrap result to the chain, not even a worker whose getNext was pending
\* when the status changed.
C13_NoRecordAfterInjecting ==
  [][(execType = "RUN" /\ execType' = "RUN" /\ status # "PROCESSING_INJECTING") =>
        (loadedRecords' = loadedRecords /\ cursor' = cursor)]_vars

C15_RetryFinalizesResidual ==
  (execType = "RETRY" /\ AtRest /\ stepFailures = 0) =>
     /\ finalized = IncompleteRecords
     /\ DOMAIN persistanceContext.recordsDB = {}
     /\ status = "FINISHED_SUCCESSFULLY"

\* C16: a retry of an execution that left no row in its records database
\* invokes no user step and ends in FINISHED_SUCCESSFULLY: nothing is
\* re-injected, no step is called, the status is FINISHED_SUCCESSFULLY as soon
\* as one records stream has ended, and a stream that has not ended can end.
C16_RetryOfCleanRunIsNoOp ==
  (execType = "RETRY" /\ IncompleteRecords = {}) =>
     /\ tasks = {}
     /\ loadedRecords = 0
     /\ \A i \in 1..getStepsCount : stepCalls[i] = <<>>
     /\ status = IF \E i \in 1..getStepsCount : streamEnded[i]
                 THEN "FINISHED_SUCCESSFULLY" ELSE "PROCESSING_INJECTING"
     /\ \A i \in 1..getStepsCount : ~streamEnded[i] => ENABLED streamEnd(i)

\* C16 witness: a retry of an execution without residual rows has come to rest.
C16_Witness ==
  /\ execType = "RETRY"
  /\ IncompleteRecords = {}
  /\ AtRest
  /\ status = "FINISHED_SUCCESSFULLY"

\* C17: in a retry the recovered step results are re-injected in ascending
\* step order: when the step result parked at step i is re-injected and
\* drained, every row parked at a step before i has been re-made and its step
\* result is neither still being fetched nor inside a user step before i.
C17_AscendingStepOrder ==
  [][\A t \in tasks \ tasks' :
       (execType = "RETRY" /\ t.kind = "recover" /\ t.at = "fetch") =>
          /\ \A r \in IncompleteRecords :
                recoveredPersistanceContext.recordsDB[r].step < t.ser.stepNumber =>
                   recoveredPersistanceContext.recordsDB[r].id \in alreadyReMake
          /\ \A u \in tasks :
                (u.kind = "recover" /\ u.at \in {"fetch", "step"}) =>
                   u.ser.stepNumber >= t.ser.stepNumber]_vars

\* C18: during one retry injectRecoveredState is called at most once for each
\* step result id of the prior execution, also when several rows reference
\* the id and the records streams of the steps run concurrently.
C18_ReplayedAtMostOnce ==
  execType = "RETRY" => \A id \in DOMAIN injections : injections[id] <= 1

\* C18 witness: a step result that two rows reference has been re-injected
\* and every stream has passed both rows.
C18_Witness ==
  /\ execType = "RETRY"
  /\ \A i \in 1..getStepsCount : streamEnded[i]
  /\ \E id \in DOMAIN injections :
        Cardinality({r \in IncompleteRecords :
                       recoveredPersistanceContext.recordsDB[r].id = id}) > 1

\* C19: execute on an incoming step result without output payload (the
\* previous client step resolved with null) returns a FAILED step result,
\* calls no client step and leaves the buffers of the step as they were.
C19_BadInputRejected ==
  [][\A t \in tasks :
       (t.ser.stepNumber < getStepsCount /\ stepResolvesNull(t)) =>
          /\ dependentRecordsAcc' = dependentRecordsAcc
          /\ previousStepPayloadAcc' = previousStepPayloadAcc
          /\ stepCalls' = stepCalls
          /\ \E u \in tasks' \ tasks :
                u.ser.status = "FAILED" /\ u.ser.stepNumber = t.ser.stepNumber + 1]_vars

C21_StepsGarbageFree ==
  (Synced /\ persistanceContext.open) =>
     /\ \A k \in DOMAIN persistanceContext.stepsResultsDB :
           /\ \E r \in DOMAIN persistanceContext.recordsDB :
                 persistanceContext.recordsDB[r].id = k
           /\ ~(persistanceContext.stepsResultsDB[k].status = "SUCCESSFUL"
                 /\ persistanceContext.stepsResultsDB[k].stepNumber = getStepsCount)
     /\ Cardinality(DOMAIN persistanceContext.stepsResultsDB)
           <= Cardinality({persistanceContext.recordsDB[r].id :
                             r \in DOMAIN persistanceContext.recordsDB})

\* The values the BatchStatus object can have held in memory up to now in a
\* run: the counters only grow, the last loaded id is set before the record
\* is counted, and the count follows as soon as its write has resolved.
StatusInstants ==
  {bs \in [loadedRecords : 0..loadedRecords, lastLoadedRecordId : 0..cursor,
           failedRecords : 0..failedRecords,
           status : {"NOT_STARTED", "PROCESSING_INJECTING", "PROCESSING_WAITING",
                     "FINISHED_WITH_ERRORS", "FINISHED_SUCCESSFULLY"}] :
     bs.lastLoadedRecordId \in {bs.loadedRecords, bs.loadedRecords + 1}}

\* C22: the status on disk is never torn: at every instant of a run the
\* values of loadedRecords, lastLoadedRecordId, failedRecords and status in
\* the status database are together the values the BatchStatus object had in
\* memory at one instant.
C22_StatusNeverTorn ==
  (execType = "RUN" /\ persistanceContext.open) =>
     persistanceContext.statusDB \in StatusInstants

\* C23: within one execution, run or retry, the status only moves along
\* NOT_STARTED -> PROCESSING_INJECTING -> PROCESSING_WAITING -> FINISHED_*:
\* never backwards, never past PROCESSING_WAITING, and never again once it
\* is FINISHED_*.
C23_StatusMovesForward ==
  [][(execType' = execType /\ status' # status) =>
        <<status, status'>> \in
           {<<"NOT_STARTED", "PROCESSING_INJECTING">>,
            <<"PROCESSING_INJECTING", "PROCESSING_WAITING">>,
            <<"PROCESSING_WAITING", "FINISHED_SUCCESSFULLY">>,
            <<"PROCESSING_WAITING", "FINISHED_WITH_ERRORS">>}]_vars

\* C24: build returns no job whose maxConcurrentRecords is 0 (it raises an
\* error for a concurrency multiplier of zero), so run never starts with
\* zero workers.
C24_NeverZeroWorkers ==
  /\ status # "NOT_STARTED" => maxConcurrentRecords > 0
  /\ (execType = "RUN" /\ status = "PROCESSING_INJECTING" /\ cursor = 0) =>
        pendingGetNext > 0

\* C25: addStep of a step instance that is already in the chain, the head
\* included, throws and leaves the chain as it was; after any sequence of
\* addStep the successor links from the head form a finite list without a
\* cycle.
C25_NoDuplicateStep ==
  [][\A step \in Instances :
       addStep(step) =>
          /\ step \in ReachedFrom(successor, stepsChain, MaxInstances) =>
                /\ addStepThrew'
                /\ UNCHANGED <<stepsChain, successor, setNumber>>
          /\ stepsChain' # NoStep => Ends(successor', stepsChain')]_vars

\* C26: when a write of a checkpoint fails, the records it was for are
\* counted as failed and keep their rows for a retry, and the run goes on:
\* in a run that has finished, every record with a rejected write is among
\* the failed ones, the run has ended with errors, and its row is on disk.
C26_WriteFailureCounted ==
  (execType = "RUN" /\ AtRest /\ status \in Finished) =>
     \A r \in persistanceContext.rejected :
        /\ failedRecords >= Cardinality(persistanceContext.rejected)
        /\ status = "FINISHED_WITH_ERRORS"
        /\ r \in DOMAIN persistanceContext.recordsDB

\* s is the front of t.
IsPrefix(s, t) == Len(s) <= Len(t) /\ SubSeq(t, 1, Len(s)) = s

\* The calls of the client step of step i that a step of the engine starts.
Invoked(i) == {u \in tasks' \ tasks : u.at = "step" /\ u.ser.stepNumber = i}

\* C27: in a run a step hands its buffers to the client step and clears them
\* in one step of the engine: a call of the client step of step i gets the
\* whole buffer of the step followed by at most the one payload that has just
\* arrived, and leaves both buffers empty; outside a drain it gets exactly
\* aggregationQuantity payloads; a step of the engine that calls no client
\* step of step i leaves its payload buffer as it was or appends one payload
\* to it.  So the batches of a step are consecutive segments of the sequence
\* of its arrivals and every payload goes to exactly one call.
C27_BatchesAreSegments ==
  [][(execType = "RUN" /\ execType' = "RUN") =>
       \A i \in 1..getStepsCount :
          /\ Cardinality(Invoked(i)) <= 1
          /\ \A u \in Invoked(i) :
                /\ previousStepPayloadAcc'[i] = <<>>
                /\ dependentRecordsAcc'[i] = <<>>
                /\ IsPrefix(previousStepPayloadAcc[i], u.ser.accPayload)
                /\ IsPrefix(dependentRecordsAcc[i], u.ser.dependentRecords)
                /\ Len(u.ser.accPayload) <= Len(previousStepPayloadAcc[i]) + 1
                /\ u.kind # "resume" =>
                      Len(u.ser.accPayload) = aggregationQuantity[i]
          /\ Invoked(i) = {} =>
                /\ IsPrefix(previousStepPayloadAcc[i], previousStepPayloadAcc'[i])
                /\ Len(previousStepPayloadAcc'[i]) <= Len(previousStepPayloadAcc[i]) + 1]_vars

\* C27 witness: a step that aggregates two payloads is running its client
\* step, outside a drain, with the two payloads that arrived, in their order
\* of arrival, and its buffers are empty again.
C27_Witness ==
  /\ execType = "RUN"
  /\ \E u \in tasks :
        /\ u.kind = "worker"
        /\ u.at = "step"
        /\ aggregationQuantity[u.ser.stepNumber] = 2
        /\ Len(u.ser.accPayload) = 2
        /\ u.ser.dependentRecords = <<1, 2>>
        /\ previousStepPayloadAcc[u.ser.stepNumber] = <<>>
        /\ dependentRecordsAcc[u.ser.stepNumber] = <<>>

\* The calls of execute that a step of the engine ends with an ACCUMULATING
\* result: a worker waits with it for doPostCommonRecordTasks, a drain gets
\* it returned.
Accumulated ==
  {u \in tasks' \ tasks : u.ser.status = "ACCUMULATING" /\ (u.kind = "worker" \/ u.at = "ret")}

\* C28: a call of execute that ends with an ACCUMULATING result of step i
\* has called no client step and has not touched the successors of step i;
\* the result holds the buffers of step i as they are after the call, which
\* are the buffers before the call with the incoming record ids and payload
\* appended, fewer payloads than aggregationQuantity; and the result is
\* checkpointed: its snapshot is written and every dependent record has a
\* row that points at it.
C28_AccumulatingKeepsBuffers ==
  [][\A u \in Accumulated :
       LET i == u.ser.stepNumber
           pc == persistanceContext'
       IN /\ stepCalls' = stepCalls
          /\ \A t \in tasks' \ tasks : t = u
          /\ \A j \in (i + 1)..getStepsCount :
                /\ dependentRecordsAcc'[j] = dependentRecordsAcc[j]
                /\ previousStepPayloadAcc'[j] = previousStepPayloadAcc[j]
          /\ u.ser.dependentRecords = dependentRecordsAcc'[i]
          /\ u.ser.accPayload = previousStepPayloadAcc'[i]
          /\ Len(previousStepPayloadAcc'[i]) < aggregationQuantity[i]
          /\ IsPrefix(dependentRecordsAcc[i], dependentRecordsAcc'[i])
          /\ IsPrefix(previousStepPayloadAcc[i], previousStepPayloadAcc'[i])
          /\ Len(dependentRecordsAcc'[i]) > Len(dependentRecordsAcc[i])
          /\ Len(previousStepPayloadAcc'[i]) = Len(previousStepPayloadAcc[i]) + 1
          /\ \E k \in 1..Len(pc.queue) :
                /\ pc.queue[k].db = "steps"
                /\ pc.queue[k].op = "put"
                /\ pc.queue[k].key = u.ser.id
                /\ pc.queue[k].value = getNiceObjectToLogStepResult(u.ser)
          /\ \A r \in Range(u.ser.dependentRecords) :
                /\ r \in DOMAIN pc.recordsDBCache
                /\ pc.recordsDBCache[r] = getNiceObjectToLogRecord(u.ser)]_vars

\* C29: while the client step of a step runs for a batch, every record of
\* the batch has a row in the records database that points at the PROCESSING
\* snapshot of that call, and the snapshot is in the step results database,
\* so that a crash at that moment leaves the records to a retry.
C29_ProcessingPublished ==
  persistanceContext.open =>
     \A t \in tasks :
        t.at = "step" =>
           \A r \in Range(t.ser.dependentRecords) :
              /\ r \in DOMAIN records
              /\ records[r].id = t.ser.id
              /\ records[r].status = "PROCESSING"
              /\ t.ser.id \in DOMAIN steps

\* How far the row of a record has come: the step, and within the step
\* ACCUMULATING, then PROCESSING, then SUCCESSFUL or FAILED.
Rank(row) ==
  3 * row.step + (IF row.status = "ACCUMULATING" THEN 0
                  ELSE IF row.status = "PROCESSING" THEN 1 ELSE 2)

\* The records a step of the engine hands to step i: the record the source
\* has just given for step 1, and for a later step the records of the call
\* of the client step of step i - 1 that has just resolved.
Handed(i) ==
  IF i = 1
  THEN IF cursor' = cursor + 1 THEN {cursor'} ELSE {}
  ELSE IF stepFailures' = stepFailures
       THEN UNION {Range(t.ser.dependentRecords) :
                     t \in {x \in tasks \ tasks' : x.at = "step" /\ x.ser.stepNumber = i - 1}}
       ELSE {}

\* C30: in a run the client steps are called in chain order for every record
\* and at most once per step.  A record gets into the buffer or into a call
\* of step i only when the source has just given it (i = 1) or the call of
\* step i - 1 that held it has just resolved; a record in a new call of step
\* i has not been in a call of step i or of a later step before (its row was
\* at most at ACCUMULATING of step i) and its row is at PROCESSING of step i
\* after; the row of a record never goes back, is dropped only when the
\* record is finalized, and a row is created only for a record the source
\* has just given.
C30_ChainOrderOncePerStep ==
  [][(execType = "RUN" /\ execType' = "RUN") =>
       LET cache == persistanceContext.recordsDBCache
           cache1 == persistanceContext'.recordsDBCache
       IN /\ \A i \in 1..getStepsCount :
                /\ Range(dependentRecordsAcc'[i]) \subseteq
                      Range(dependentRecordsAcc[i]) \cup Handed(i)
                /\ \A u \in Invoked(i) :
                      /\ Range(u.ser.dependentRecords) \subseteq
                            Range(dependentRecordsAcc[i]) \cup Handed(i)
                      /\ \A r \in Range(u.ser.dependentRecords) :
                            /\ r \notin finalized
                            /\ r \in DOMAIN cache => Rank(cache[r]) <= 3 * i
                            /\ r \in DOMAIN cache1
                            /\ Rank(cache1[r]) = 3 * i + 1
          /\ \A r \in DOMAIN cache :
                IF r \in DOMAIN cache1
                THEN Rank(cache1[r]) >= Rank(cache[r])
                ELSE r \in finalized'
          /\ \A r \in DOMAIN cache1 \ DOMAIN cache :
                /\ r = cursor'
                /\ cursor' = cursor + 1]_vars

\* C30 witness: the client step of step 2 is running, outside a drain, with
\* a record that step 1 has been called with before.
C30_Witness ==
  /\ execType = "RUN"
  /\ stepCalls[1] # <<>>
  /\ \E u \in tasks :
        /\ u.kind = "worker"
        /\ u.at = "step"
        /\ u.ser.stepNumber = 2
        /\ 1 \in Range(u.ser.dependentRecords)

\* C31: once the checkpoint of a SUCCESSFUL result of the last step has been
\* written, no row of the records database and no row of the step results
\* database mentions a record it finalized.
C31_FinalizedLeaveNoRow ==
  (execType = "RUN" /\ Synced /\ persistanceContext.open) =>
     \A r \in finalized :
        /\ r \notin DOMAIN records
        /\ \A k \in DOMAIN steps : r \notin Range(steps[k].dependentRecords)

\* C32: the buffers of every step, every step result a call holds or has
\* returned, and every snapshot written or waiting to be written hold at
\* least as many dependent records as payloads.
C32_RecordsCoverPayloads ==
  /\ \A i \in 1..getStepsCount :
        Len(dependentRecordsAcc[i]) >= Len(previousStepPayloadAcc[i])
  /\ \A t \in tasks : Len(t.ser.dependentRecords) >= Len(t.ser.accPayload)
  /\ \A k \in DOMAIN steps :
        Len(steps[k].dependentRecords) >= Len(steps[k].accPayload)
  /\ \A k \in 1..Len(persistanceContext.queue) :
        LET w == persistanceContext.queue[k]
        IN (w.db = "steps" /\ w.op = "put") =>
              Len(w.value.dependentRecords) >= Len(w.value.accPayload)

\* C32 witness: the snapshot of a call that holds one payload made from two
\* records is on disk.
C32_Witness ==
  \E t \in tasks :
     /\ Len(t.ser.accPayload) = 1
     /\ Len(t.ser.dependentRecords) = 2
     /\ t.ser.id \in DOMAIN steps
     /\ Len(steps[t.ser.id].dependentRecords) = 2

\* C33: every SUCCESSFUL step result that a call has returned or that has
\* been written has dependent records, and a returned one has its output
\* payload set; the result that a drain over empty buffers returns is one of
\* them.  (C33 asks in addition that the error is set exactly in FAILED
\* results.)
C33_SuccessfulHasOutput ==
  /\ \A t \in tasks :
        t.ser.status = "SUCCESSFUL" =>
           /\ t.ser.outputPayload # <<>>
           /\ t.ser.dependentRecords # <<>>
  /\ \A k \in DOMAIN steps :
        steps[k].status = "SUCCESSFUL" => steps[k].dependentRecords # <<>>

C35_WindowKeptFull ==
  [][(execType = "RUN" /\ status = "PROCESSING_INJECTING") =>
       /\ currentConcurrency + pendingGetNext = maxConcurrentRecords
       /\ \A t \in tasks :
             doPostCommonRecordTasks(t) =>
                /\ (t.ser.status = "SUCCESSFUL" /\ t.ser.stepNumber = getStepsCount) =>
                      /\ pendingGetNext' = pendingGetNext + Len(t.ser.dependentRecords)
                      /\ currentConcurrency' = currentConcurrency - Len(t.ser.dependentRecords)
                /\ t.ser.status \in {"ACCUMULATING", "PROCESSING"} =>
                      /\ pendingGetNext' = pendingGetNext
                      /\ currentConcurrency' = currentConcurrency]_vars

\* C35 witness: while the run is injecting and no worker waits in getNext, a
\* worker has come back with the SUCCESSFUL result of the last step for a
\* batch of two records and is about to start two workers.
C35_Witness ==
  /\ execType = "RUN"
  /\ status = "PROCESSING_INJECTING"
  /\ pendingGetNext = 0
  /\ \E t \in tasks :
        /\ t.kind = "worker"
        /\ t.at = "post"
        /\ t.ser.status = "SUCCESSFUL"
        /\ t.ser.stepNumber = getStepsCount
        /\ t.n = 2

\* C36: endBatchExecution is called at most once in a run and at most once
\* in a retry.
C36_EndOfBatchOnce == endCount <= 1

\* The records whose row in the records cache says FAILED.
FailedRows ==
  {r \in DOMAIN persistanceContext.recordsDBCache :
     persistanceContext.recordsDBCache[r].status = "FAILED"}

\* The results with an outcome that a step of the engine gets back from the
\* chain: FAILED ones and SUCCESSFUL ones of the last step.
Outcomes ==
  {u \in tasks' \ tasks :
     /\ u.at = "ret" \/ (u.kind = "worker" /\ u.ser.status # "FAILED")
     /\ u.ser.dependentRecords # <<>>
     /\ \/ u.ser.status = "FAILED"
        \/ u.ser.status = "SUCCESSFUL" /\ u.ser.isLastOne}

\* The FAILED results that the engine has got back and not counted yet.
Uncounted == {t \in tasks : t.at = "ret" /\ t.ser.status = "FAILED"}

\* C37: in a run every loaded record reaches at most one outcome.  A result
\* with an outcome lists every record once, and none that is finalized or
\* failed already; the failed records counted are the records with a FAILED
\* row less those of the FAILED results still to be counted, and none of them
\* is finalized; finalized and failed records together are at most the
\* loaded ones; and currentConcurrency is never negative.
C37_OneOutcomePerRecord ==
  [][(execType = "RUN" /\ execType' = "RUN") =>
       /\ \A u \in Outcomes :
             /\ Cardinality(Range(u.ser.dependentRecords)) = Len(u.ser.dependentRecords)
             /\ Range(u.ser.dependentRecords) \cap (finalized \cup FailedRows) = {}
             /\ Range(u.ser.dependentRecords) \subseteq 1..loadedRecords'
       /\ failedRecords + SumOver(Uncounted, [t \in Uncounted |-> Len(t.ser.dependentRecords)])
             = Cardinality(FailedRows)
       /\ finalized \cap FailedRows = {}
       /\ Cardinality(finalized) + failedRecords <= loadedRecords
       /\ currentConcurrency >= 0
       /\ currentConcurrency' >= 0]_vars

\* C37 witness: a run has come to rest with one record finalized and another
\* one failed.
C37_Witness ==
  /\ execType = "RUN"
  /\ AtRest
  /\ Cardinality(finalized) = 1
  /\ failedRecords = 1
  /\ loadedRecords = 2
  /\ currentConcurrency = 0

\* C38: during a run the buffers of all steps together hold fewer records
\* than getTotalStepsNeeded, so that the test of the drain,
\* recordsInTheChain < getTotalStepsNeeded, is true whenever every record in
\* flight is in a buffer.
C38_ParkedBelowFanIn ==
  execType = "RUN" => recordsInTheChain <= getTotalStepsNeeded - 1

\* The positions in the queue of pc of the writes to the row of record r.
WritesOf(pc, r) ==
  {k \in 1..Len(pc.queue) : pc.queue[k].db = "records" /\ pc.queue[k].key = r}

\* getRecordStatus(r) gives what the last pending write to the row of r wrote.
ReadsLastWrite(pc, r) ==
  LET K == WritesOf(pc, r)
      last == pc.queue[CHOOSE k \in K : \A o \in K : o <= k]
  IN K # {} =>
       IF last.op = "put"
       THEN r \in DOMAIN pc.recordsDBCache /\ pc.recordsDBCache[r] = last.value
       ELSE r \notin DOMAIN pc.recordsDBCache

\* C39: getRecordStatus returns what the most recent putRecordStatus or
\* delRecordStatus of the record left, nothing after a delRecordStatus,
\* whether or not the write has reached the disk.  After every step the
\* records cache agrees with the last write issued for every record; a step in
\* which the database applies a write leaves the cache as it is; and a step
\* of the engine of an execution leaves the cache entry of every record it
\* issued no write for as it is.
C39_CacheReadsLastWrite ==
  [][LET pc == persistanceContext
         pc1 == persistanceContext'
     IN /\ \A r \in 1..MaxRecords : ReadsLastWrite(pc1, r)
        /\ flush => pc1.recordsDBCache = pc.recordsDBCache
        /\ (~flush /\ execType' = execType /\ status # "NOT_STARTED") =>
              \A r \in 1..MaxRecords :
                 WritesOf(pc1, r) = {} =>
                    /\ r \in DOMAIN pc1.recordsDBCache <=> r \in DOMAIN pc.recordsDBCache
                    /\ r \in DOMAIN pc.recordsDBCache =>
                          pc1.recordsDBCache[r] = pc.recordsDBCache[r]]_vars

\* C39 witness: the row of a finalized record is still on disk, its delete
\* is pending, and the cache has no entry for it any more.
C39_Witness ==
  /\ persistanceContext.open
  /\ \E r \in DOMAIN records :
        /\ r \notin DOMAIN persistanceContext.recordsDBCache
        /\ \E k \in WritesOf(persistanceContext, r) : persistanceContext.queue[k].op = "del"

====
